---- MODULE Spec2Model ----
(***************************************************************************)
(* A model of hypersearch.py: the hyper schema and its hooks, the          *)
(* flatten/hydrate pipeline of HSearchEnv.get_hypers, the vector codec of  *)
(* main_gp (hypers2vec / vec2hypers over a DictVectorizer) and the search  *)
(* loop of main_gp with its run store.                                     *)
(*                                                                         *)
(* Representation.                                                         *)
(*  - A Python value is a record [t, n, s]: t is the type tag, n the       *)
(*    number and s the string.  Floats are fixed-point thousandths: the    *)
(*    float 0.95 is Num(950), the int 10 is Num(10000).  10**-x is kept    *)
(*    symbolic (tag "pow10neg") since it is no multiple of a thousandth.   *)
(*  - A dotted key 'net.width' is the sequence <<"net", "width">>, which   *)
(*    is what path.split('.') yields.                                      *)
(*  - A dict is a function from keys to values.  A nested dict (the main   *)
(*    and custom trees) is a function from the full paths of its leaves to *)
(*    their values; an empty sub-dict is the leaf EmptyMap.                *)
(*  - A raised exception is the value Raise (for a hook) or a result       *)
(*    record whose status is "raise".                                      *)
(***************************************************************************)
EXTENDS Integers, Sequences, FiniteSets, TLC

(* ------------------------------ values -------------------------------- *)

Milli(x) == x * 1000

None == [t |-> "none", n |-> 0, s |-> ""]

Raise == [t |-> "raise", n |-> 0, s |-> ""]

EmptyMap == [t |-> "map", n |-> 0, s |-> ""]

Num(m) == [t |-> "num", n |-> m, s |-> ""]

Bool(b) == [t |-> "bool", n |-> IF b THEN 1 ELSE 0, s |-> ""]

Str(x) == [t |-> "str", n |-> 0, s |-> x]

Pow10Neg(m) == [t |-> "pow10neg", n |-> m, s |-> ""]

Pow2Frac(m) == [t |-> "pow2", n |-> m, s |-> ""]

\* A bool is an int in Python: True is 1 and False is 0 in arithmetic.
IsNumeric(v) == v.t \in {"num", "bool"}

AsMilli(v) == IF v.t = "bool" THEN Milli(v.n) ELSE v.n

\* Python truthiness: None, 0, 0.0, False and '' are falsy.
Truthy(v) ==
    CASE v.t = "none" -> FALSE
      [] v.t = "num" -> v.n /= 0
      [] v.t = "bool" -> v.n = 1
      [] v.t = "str" -> v.s /= ""
      [] OTHER -> TRUE

\* Python 3 round(x): to the nearest integer, a tie to the even one.
RoundMilli(m) ==
    LET q == m \div 1000
        r == m % 1000
    IN  IF r < 500 THEN q
        ELSE IF r > 500 THEN q + 1
        ELSE IF q % 2 = 0 THEN q ELSE q + 1

\* int(x): truncation towards zero.
TruncMilli(m) == IF m >= 0 THEN m \div 1000 ELSE -((-m) \div 1000)

RECURSIVE TwoPow(_)
TwoPow(e) == IF e <= 0 THEN 1 ELSE 2 * TwoPow(e - 1)

(* ------------------------------- hooks -------------------------------- *)

\* pre: round
round(v) == IF IsNumeric(v) THEN Num(Milli(RoundMilli(AsMilli(v)))) ELSE Raise

\* pre: int
int(v) == IF IsNumeric(v) THEN Num(Milli(TruncMilli(AsMilli(v)))) ELSE Raise

\* 2**x.  A whole, non-negative exponent is computed; any other stays symbolic.
two_to_the(v) ==
    IF ~IsNumeric(v) THEN Raise
    ELSE LET m == AsMilli(v)
         IN  IF m % 1000 = 0 /\ m >= 0 /\ m <= 20000
             THEN Num(Milli(TwoPow(m \div 1000)))
             ELSE Pow2Frac(m)

\* 10**-x
ten_to_the_neg(v) == IF IsNumeric(v) THEN Pow10Neg(AsMilli(v)) ELSE Raise

\* min_threshold(thresh, fallback): x if (x and x > thresh) else fallback.
\* A falsy x short-circuits; a non-numeric truthy x cannot be compared.
min_threshold(thresh, fallback, v) ==
    IF ~Truthy(v) THEN fallback
    ELSE IF ~IsNumeric(v) THEN Raise
    ELSE IF AsMilli(v) > thresh THEN v ELSE fallback

\* min_ten_neg(thresh, fallback), with thresh = 10**-e given by its exponent
\* e in thousandths: 10**-x is never falsy, and 10**-x > 10**-e iff x < e.
min_ten_neg(e, fallback, v) ==
    IF ~IsNumeric(v) THEN Raise
    ELSE IF AsMilli(v) < e THEN Pow10Neg(AsMilli(v)) ELSE fallback

\* gae_lambda_post with the threshold at the guess itself (x > .95).
gae_lambda_post_strict(v, others) ==
    IF ~Truthy(v) THEN None
    ELSE IF ~IsNumeric(v) THEN Raise
    ELSE IF ~(AsMilli(v) > 950) THEN None
    ELSE IF <<"baseline_mode">> \notin DOMAIN others THEN Raise
    ELSE IF Truthy(others[<<"baseline_mode">>]) THEN v ELSE None

\* The post hook of gae_lambda:
\*   x if (x and x > .9 and others['baseline_mode']) else None
gae_lambda_post(v, others) ==
    IF ~Truthy(v) THEN None
    ELSE IF ~IsNumeric(v) THEN Raise
    ELSE IF ~(AsMilli(v) > 900) THEN None
    ELSE IF <<"baseline_mode">> \notin DOMAIN others THEN Raise
    ELSE IF Truthy(others[<<"baseline_mode">>]) THEN v ELSE None

(* ------------------------------ schema -------------------------------- *)

\* One hyper: {type, vals, guess, pre, post, hydrate}.  vals is [lo, hi] for
\* 'bounded', the options for 'int', and [0, 1] for 'bool' (filled in by the
\* fix-up loop after the sections).  A hook is named; thresh and fallback are
\* the arguments of min_threshold / min_ten_neg.
Hyper(type, lo, hi, opts, guess, pre, post, hydrate, thresh, fallback) ==
    [type |-> type, lo |-> lo, hi |-> hi, opts |-> opts, guess |-> guess,
     pre |-> pre, post |-> post, hydrate |-> hydrate, thresh |-> thresh,
     fallback |-> fallback]

Bounded(lo, hi, guess, pre, hydrate, thresh, fallback) ==
    Hyper("bounded", lo, hi, <<>>, Num(guess), pre, "", hydrate, thresh, fallback)

\* for every 'bool' hyper: v['vals'] = [0, 1]
BoolHyper(guess, hydrate) ==
    Hyper("bool", 0, Milli(1), <<>>, Bool(guess), "", "", hydrate, 0, None)

IntHyper(opts, guess) ==
    Hyper("int", 0, 0, opts, Str(guess), "", "", "", 0, None)

\* A hard-coded value: the entry is the literal itself, not a dict.
Literal(v) == Hyper("literal", 0, 0, <<>>, v, "", "", "", 0, None)

batch_agent ==
    (<<"batch_size">> :> Bounded(Milli(3), Milli(11), Milli(10), "round", "two_to_the", 0, None))
    @@ (<<"keep_last_timestep">> :> BoolHyper(TRUE, ""))

model ==
    (<<"optimizer", "type">> :> IntHyper(<<"nadam", "adam">>, "adam"))
    @@ (<<"optimizer", "learning_rate">> :>
            Bounded(0, Milli(8), 6500, "", "ten_to_the_neg", 0, None))
    @@ (<<"optimization_steps">> :> Bounded(Milli(1), Milli(30), Milli(10), "round", "", 0, None))
    @@ (<<"discount">> :> Bounded(900, 990, 990, "", "", 0, None))

distribution_model ==
    (<<"entropy_regularization">> :>
        Bounded(0, Milli(5), Milli(2), "", "min_ten_neg", Milli(4), Num(0)))

pg_model ==
    (<<"baseline_mode">> :> BoolHyper(TRUE, "hydrate_baseline"))
    @@ (<<"gae_lambda">> :>
            Hyper("bounded", 800, Milli(1), <<>>, Num(950), "", "gae_lambda_post", "", 0, None))

pg_prob_ration_model ==
    (<<"likelihood_ratio_clipping">> :>
        Bounded(0, Milli(1), 200, "", "min_threshold", 50, None))

\* Rename key `from` of section `sec` to `to`: sec[to] = sec.pop(from).
Rekey(sec, from, to) ==
    [k \in (DOMAIN sec \ {from}) \cup {to} |-> IF k = to THEN sec[from] ELSE sec[k]]

ppo_agent ==
    Rekey(Rekey(batch_agent @@ model @@ distribution_model @@ pg_model
                    @@ pg_prob_ration_model,
                <<"optimizer", "learning_rate">>, <<"step_optimizer", "learning_rate">>),
          <<"optimizer", "type">>, <<"step_optimizer", "type">>)

custom ==
    (<<"indicators">> :> BoolHyper(TRUE, ""))
    @@ (<<"net", "depth_mid">> :> Bounded(Milli(1), Milli(3), Milli(3), "round", "", 0, None))
    @@ (<<"net", "depth_post">> :> Bounded(Milli(1), Milli(3), Milli(2), "round", "", 0, None))
    @@ (<<"net", "width">> :> Bounded(Milli(3), Milli(9), Milli(6), "round", "two_to_the", 0, None))
    @@ (<<"net", "funnel">> :> BoolHyper(TRUE, ""))
    @@ (<<"net", "activation">> :> IntHyper(<<"tanh", "relu">>, "tanh"))
    @@ (<<"net", "dropout">> :> Bounded(0, 500, 1, "", "min_threshold", 100, None))
    @@ (<<"net", "l2">> :> Bounded(0, Milli(7), Milli(7), "", "min_ten_neg", Milli(6), Num(0)))
    @@ (<<"net", "l1">> :> Bounded(0, Milli(7), Milli(3), "", "min_ten_neg", Milli(6), Num(0)))
    @@ (<<"pct_change">> :> BoolHyper(FALSE, ""))
    @@ (<<"unimodal">> :> BoolHyper(FALSE, ""))
    @@ (<<"scale">> :> BoolHyper(TRUE, ""))
    @@ (<<"punish_repeats">> :> BoolHyper(FALSE, ""))
    @@ (<<"arbitrage">> :> BoolHyper(TRUE, ""))

lstm ==
    (<<"net", "depth_pre">> :> Bounded(0, Milli(3), Milli(2), "int", "", 0, None))

conv2d ==
    (<<"net", "window">> :> Bounded(Milli(1), Milli(3), Milli(2), "round", "", 0, None))
    @@ (<<"net", "stride">> :> Bounded(Milli(1), Milli(3), Milli(3), "round", "", 0, None))
    @@ (<<"step_window">> :> Bounded(Milli(100), Milli(400), Milli(200), "round", "", 0, None))

\* The module-level catalogue `hypers`, by section name.
hypers(section) ==
    CASE section = "ppo_agent" -> ppo_agent
      [] section = "custom" -> custom
      [] section = "lstm" -> lstm
      [] section = "conv2d" -> conv2d

NetTypes == {"conv2d", "lstm"}

\* HSearchEnv.__init__: self.hypers.  dict.update lets the later section win.
EnvHypers(agent, net_type) ==
    hypers(net_type)
    @@ (<<"net", "type">> :> Literal(Str(net_type)))
    @@ custom
    @@ hypers(agent)

\* The entries of a schema that are no dict, and those that are.
Literals(hs) == [k \in {k \in DOMAIN hs : hs[k].type = "literal"} |-> hs[k].guess]

NonLiterals(hs) == [k \in {k \in DOMAIN hs : hs[k].type /= "literal"} |-> hs[k]]

\* HSearchEnv.__init__: self.hardcoded, the entries that are no dict.
EnvHardcoded(agent, net_type) == Literals(EnvHypers(agent, net_type))

(* ------------------------------ DotDict ------------------------------- *)

IsPrefix(p, q) == Len(p) <= Len(q) /\ SubSeq(q, 1, Len(p)) = p

\* The value under `p` is a dict: an empty one, or one with leaves below it.
IsMapAt(tree, p) ==
    \/ p \in DOMAIN tree /\ tree[p] = EmptyMap
    \/ \E q \in DOMAIN tree : Len(q) > Len(p) /\ IsPrefix(p, q)

\* DotDict.__setitem__ raises when the walk descends into a value that is no
\* dict: `k in v` (or v[k] = ...) on a number, None or a str is a TypeError.
SetItemRaises(tree, path) ==
    \E i \in 1..(Len(path) - 1) :
        LET p == SubSeq(path, 1, i)
        IN  p \in DOMAIN tree /\ tree[p] /= EmptyMap

\* DotDict.__setitem__(path, val), when it does not raise: the missing
\* intermediate dicts are created and v[k] = val replaces what was under path.
SetItem(tree, path, val) ==
    LET kept == {q \in DOMAIN tree : ~IsPrefix(path, q) /\ ~IsPrefix(q, path)}
    IN  [q \in kept \cup {path} |-> IF q = path THEN val ELSE tree[q]]

\* obj.update(d) for a nested dict d: every top-level key of d is replaced.
Update(tree, d) ==
    LET tops == {q[1] : q \in DOMAIN d}
        kept == {q \in DOMAIN tree : q[1] \notin tops}
    IN  [q \in kept \cup DOMAIN d |-> IF q \in DOMAIN d THEN d[q] ELSE tree[q]]

\* `k in v` for a dict v: the key under `q` exists in its parent.
HasKey(tree, q) == \E r \in DOMAIN tree : IsPrefix(q, r)

\* `k in v` for a str v is a substring test; of the keys and strings used
\* here, "a" is a substring of "tanh" and nothing else is.
Contains(x, k) == <<k, x>> \in {<<"a", "tanh">>}

\* What a call returns: a value (leaf; sub is the dict's content when the
\* value is a dict), or that it raised.
Returned(leaf, sub) == [status |-> "ok", leaf |-> leaf, sub |-> sub]

Raised == [status |-> "raise", leaf |-> None, sub |-> <<>>]

\* The object under `p`, which exists: a leaf, or the dict of what is below.
ValueAt(tree, p) ==
    IF p \in DOMAIN tree THEN Returned(tree[p], <<>>)
    ELSE LET below == {q \in DOMAIN tree : IsPrefix(p, q)}
         IN  Returned(EmptyMap,
                      [r \in {SubSeq(q, Len(p) + 1, Len(q)) : q \in below} |-> tree[p \o r]])

\* DotDict.__getitem__(path), at its i-th key with v the object under the
\* keys before it:  if k not in v: return None;  v = v[k]
\* On a number, a bool or None `k not in v` is a TypeError; on a str it is a
\* substring test, and v[k] with a str k a TypeError.
RECURSIVE GetItemFrom(_, _, _)
GetItemFrom(tree, path, i) ==
    LET p == SubSeq(path, 1, i - 1)
    IN  IF i > Len(path) THEN ValueAt(tree, p)
        ELSE IF p \in DOMAIN tree /\ tree[p] /= EmptyMap
        THEN IF tree[p].t = "str" /\ ~Contains(tree[p].s, path[i])
             THEN Returned(None, <<>>)
             ELSE Raised
        ELSE IF ~HasKey(tree, SubSeq(path, 1, i)) THEN Returned(None, <<>>)
        ELSE GetItemFrom(tree, path, i + 1)

GetItem(tree, path) == GetItemFrom(tree, path, 1)

(* ---------------------------- net spec -------------------------------- *)

IsNumber(v) == v.t \in {"num", "bool", "pow2", "pow10neg"}

\* range(v) accepts an int (a bool is one).  The whole numbers that reach
\* range() here are ints: they come from the round / int pre hooks or from an
\* int literal of the schema.
IsInt(v) == v.t = "bool" \/ (v.t = "num" /\ v.n % 1000 = 0)

HasNet(c, name) == <<"net", name>> \in DOMAIN c

\* for i in range(v): the body runs at least once
RangeRuns(v) == AsMilli(v) >= 1000

\* size = int(net.width/..) if net.funnel else net.width
SizeOK(c) ==
    /\ HasNet(c, "funnel")
    /\ HasNet(c, "width")
    /\ (Truthy(c[<<"net", "funnel">>]) => IsNumber(c[<<"net", "width">>]))

\* build_net_spec(hypers, baseline) returns (TRUE) or raises (FALSE).  The
\* layer list itself is opaque to the search engine.  data.n_cols is taken to
\* succeed, and the conv2d window arithmetic is taken to succeed once its
\* operands are non-zero numbers.
build_net_spec(c, baseline) ==
    /\ \A k \in {<<"indicators">>, <<"arbitrage">>} : k \in DOMAIN c
    /\ \A n \in {"activation", "l2", "l1", "dropout", "type"} : HasNet(c, n)
    /\ HasNet(c, "depth_pre") =>
          /\ IsInt(c[<<"net", "depth_pre">>])
          /\ RangeRuns(c[<<"net", "depth_pre">>]) => SizeOK(c)
    /\ ~(c[<<"net", "type">>] = Str("lstm") /\ baseline) =>
          /\ c[<<"net", "type">>] = Str("conv2d") => <<"step_window">> \in DOMAIN c
          /\ HasNet(c, "depth_mid")
          /\ IsInt(c[<<"net", "depth_mid">>])
          /\ RangeRuns(c[<<"net", "depth_mid">>]) =>
                /\ HasNet(c, "width")
                /\ c[<<"net", "type">>] /= Str("lstm") =>
                      /\ c[<<"net", "type">>] = Str("conv2d")
                      /\ IsNumber(c[<<"step_window">>])
                      /\ \A n \in {"window", "stride"} :
                            /\ HasNet(c, n)
                            /\ IsNumber(c[<<"net", n>>])
                            /\ Truthy(c[<<"net", n>>])
                      /\ IsNumber(c[<<"net", "width">>])
    /\ HasNet(c, "depth_post")
    /\ IsInt(c[<<"net", "depth_post">>])
    /\ RangeRuns(c[<<"net", "depth_post">>]) => SizeOK(c)

\* custom_net(hypers, baseline): builds the layer spec eagerly.
custom_net(c, baseline) == build_net_spec(c, baseline)

(* ----------------------------- get_hypers ----------------------------- *)

\* hydrate_baseline(x, flat).  The dict literal is built before it is indexed
\* by x, so flat['optimization_steps'], flat['step_optimizer.type'] and
\* 10 ** -flat['step_optimizer.learning_rate'] are evaluated for either x.
\* {False: .., True: ..}[x] also accepts 0 and 1, which hash like the bools.
hydrate_baseline_raises(x, flat) ==
    \/ <<"optimization_steps">> \notin DOMAIN flat
    \/ <<"step_optimizer", "type">> \notin DOMAIN flat
    \/ <<"step_optimizer", "learning_rate">> \notin DOMAIN flat
    \/ ~IsNumeric(flat[<<"step_optimizer", "learning_rate">>])
    \/ ~(IsNumeric(x) /\ AsMilli(x) \in {0, 1000})

hydrate_baseline(x, flat) ==
    IF ~Truthy(x)
    THEN (<<"baseline_mode">> :> None)
    ELSE (<<"baseline", "type">> :> Str("custom"))
         @@ (<<"baseline_mode">> :> Str("states"))
         @@ (<<"baseline_optimizer", "type">> :> Str("multi_step"))
         @@ (<<"baseline_optimizer", "num_steps">> :> flat[<<"optimization_steps">>])
         @@ (<<"baseline_optimizer", "optimizer", "type">> :>
                 flat[<<"step_optimizer", "type">>])
         @@ (<<"baseline_optimizer", "optimizer", "learning_rate">> :>
                 Pow10Neg(AsMilli(flat[<<"step_optimizer", "learning_rate">>])))

\* hyper['pre'](v)
ApplyPre(hyper, v) ==
    CASE hyper.pre = "round" -> round(v)
      [] hyper.pre = "int" -> int(v)
      [] OTHER -> v

\* hyper['post'](v, flat)
ApplyPost(hyper, v, flat) ==
    IF hyper.post = "gae_lambda_post" THEN gae_lambda_post(v, flat) ELSE v

\* hyper['hydrate'](v, flat) for the hooks that return a scalar.  A hyper
\* without a hydrate entry (and a hard-coded literal) raises on the lookup.
ApplyHydrate(hyper, v) ==
    CASE hyper.hydrate = "two_to_the" -> two_to_the(v)
      [] hyper.hydrate = "ten_to_the_neg" -> ten_to_the_neg(v)
      [] hyper.hydrate = "min_threshold" -> min_threshold(hyper.thresh, hyper.fallback, v)
      [] hyper.hydrate = "min_ten_neg" -> min_ten_neg(hyper.thresh, hyper.fallback, v)
      [] OTHER -> Raise

Failed(stage) ==
    [status |-> "raise", stage |-> stage, flat |-> <<>>, main |-> <<>>,
     custom |-> <<>>]

\* The lookup as self.hypers.get(k, {}) would do it: it never raises.
HasHyperLenient(hs, k) == TRUE

\* hyper = self.hypers[k]: the lookup succeeds only for a key of the schema
\* (a KeyError otherwise) ...
HasHyper(hs, k) == k \in DOMAIN hs

\* ... and then yields the entry.  (For a key without an entry the value is
\* an entry without hooks; the code never gets that far.)
HyperAt(hs, k) == IF k \in DOMAIN hs THEN hs[k] ELSE Literal(None)

\* Pre-phase: for k, v in actions.items(): hyper = self.hypers[k];
\* v = hyper['pre'](v) if 'pre' in hyper; then flat.update(self.hardcoded).
\* Neither the lookup nor the hook is inside a try.
PrePhaseRaises(hs, actions) ==
    \E k \in DOMAIN actions :
        \/ ~HasHyper(hs, k)
        \/ ApplyPre(HyperAt(hs, k), actions[k]) = Raise

PrePhase(hs, hardcoded, actions) ==
    hardcoded @@ [k \in DOMAIN actions |-> ApplyPre(HyperAt(hs, k), actions[k])]

\* Post-phase: flat[k] = hyper['post'](v, flat); nothing catches a raise.
\* The only post hook reads baseline_mode, which has no post hook itself, so
\* the flat it reads is the pre-phase flat whatever the iteration order.
PostPhaseRaises(hs, flat) ==
    \E k \in DOMAIN flat :
        \/ ~HasHyper(hs, k)
        \/ ApplyPost(HyperAt(hs, k), flat[k], flat) = Raise

PostPhase(hs, flat) ==
    [k \in DOMAIN flat |-> ApplyPost(HyperAt(hs, k), flat[k], flat)]

\* One key of the hydrate loop on the tree `obj`:
\*   try:    v = hydrate(v, flat); obj.update(v) if dict else obj[k] = v
\*   except: obj[k] = v
\* The result is [ok, tree]; ok is FALSE when the except branch raises too.
HydrateKey(hs, flat, obj, k) ==
    LET v == flat[k]
        isBaseline == HyperAt(hs, k).hydrate = "hydrate_baseline"
        r == ApplyHydrate(HyperAt(hs, k), v)
        tryFails ==
            IF isBaseline THEN hydrate_baseline_raises(v, flat)
            ELSE r = Raise \/ SetItemRaises(obj, k)
    IN  IF ~tryFails
        THEN [ok |-> TRUE,
              tree |-> IF isBaseline THEN Update(obj, hydrate_baseline(v, flat))
                       ELSE SetItem(obj, k, r)]
        ELSE IF SetItemRaises(obj, k) THEN [ok |-> FALSE, tree |-> obj]
        ELSE [ok |-> TRUE, tree |-> SetItem(obj, k, v)]

\* The hydrate loop over the keys that go to one tree.  The keys of a schema
\* write disjoint paths, so the trees do not depend on the iteration order.
RECURSIVE HydrateAll(_, _, _, _)
HydrateAll(hs, flat, acc, keys) ==
    IF keys = {} \/ ~acc.ok THEN acc
    ELSE LET k == CHOOSE x \in keys : TRUE
         IN  HydrateAll(hs, flat, HydrateKey(hs, flat, acc.tree, k), keys \ {k})

\* After the loop: network = custom_net(custom); then
\*   if flat['baseline_mode']: main['baseline']['network_spec'] = custom_net(.., baseline=True)
\* (type(self.hypers['baseline_mode']) == bool holds for no schema entry).
BaselineNetRaises(flat, main, c) ==
    \/ <<"baseline_mode">> \notin DOMAIN flat
    \/ /\ Truthy(flat[<<"baseline_mode">>])
       /\ \/ ~custom_net(c, TRUE)
          \/ ~IsMapAt(main, <<"baseline">>)

\* HSearchEnv.get_hypers(actions) on an instance with the given self.hypers,
\* self.hardcoded and self.agent; gpu_split is 1, so session_config is None.
get_hypers(hs, hardcoded, agent, actions) ==
    IF PrePhaseRaises(hs, actions) THEN Failed("pre")
    ELSE LET flat1 == PrePhase(hs, hardcoded, actions)
         IN  IF PostPhaseRaises(hs, flat1) THEN Failed("post")
             ELSE LET flat == PostPhase(hs, flat1)
                      mainKeys == DOMAIN flat \cap DOMAIN hypers(agent)
                      empty == [ok |-> TRUE, tree |-> <<>>]
                      hm == HydrateAll(hs, flat, empty, mainKeys)
                      hc == HydrateAll(hs, flat, empty, DOMAIN flat \ mainKeys)
                      main == hm.tree
                      cust == hc.tree
                  IN  IF ~hm.ok \/ ~hc.ok THEN Failed("hydrate")
                      ELSE IF ~custom_net(cust, FALSE) THEN Failed("network")
                      ELSE IF BaselineNetRaises(flat, main, cust) THEN Failed("baseline")
                      ELSE [status |-> "ok", stage |-> "",
                            flat |-> flat,
                            main |-> SetItem(
                                IF Truthy(flat[<<"baseline_mode">>])
                                THEN SetItem(main, <<"baseline", "network_spec">>,
                                             Str("CustomNet"))
                                ELSE main,
                                <<"session_config">>, None),
                            custom |-> cust]

\* HSearchEnv.get_winner() without an id: the winner is the guess of every
\* key that is not in self.hardcoded, plus self.hardcoded; it becomes
\* self.hardcoded and get_hypers({}) is called on it.
WinnerOf(hs, hardcoded) ==
    hardcoded @@ [k \in DOMAIN hs \ DOMAIN hardcoded |-> hs[k].guess]

get_winner(hs, hardcoded, agent) ==
    get_hypers(hs, WinnerOf(hs, hardcoded), agent, <<>>)

(* ---------------------------- vector codec ---------------------------- *)

\* A feature name of the DictVectorizer: 'key' for a numeric value (val = ""),
\* 'key=value' for a string value.
Feat(attr, val) == [attr |-> attr, val |-> val]

\* Every feature name of either network family, in DictVectorizer's order
\* (fit sorts the names it saw as Python strings).
FeatOrder ==
    << Feat(<<"arbitrage">>, ""), Feat(<<"baseline_mode">>, ""),
       Feat(<<"batch_size">>, ""), Feat(<<"discount">>, ""),
       Feat(<<"entropy_regularization">>, ""), Feat(<<"gae_lambda">>, ""),
       Feat(<<"indicators">>, ""), Feat(<<"keep_last_timestep">>, ""),
       Feat(<<"likelihood_ratio_clipping">>, ""),
       Feat(<<"net", "activation">>, "relu"), Feat(<<"net", "activation">>, "tanh"),
       Feat(<<"net", "depth_mid">>, ""), Feat(<<"net", "depth_post">>, ""),
       Feat(<<"net", "depth_pre">>, ""), Feat(<<"net", "dropout">>, ""),
       Feat(<<"net", "funnel">>, ""), Feat(<<"net", "l1">>, ""),
       Feat(<<"net", "l2">>, ""), Feat(<<"net", "stride">>, ""),
       Feat(<<"net", "width">>, ""), Feat(<<"net", "window">>, ""),
       Feat(<<"optimization_steps">>, ""), Feat(<<"pct_change">>, ""),
       Feat(<<"punish_repeats">>, ""), Feat(<<"scale">>, ""),
       Feat(<<"step_optimizer", "learning_rate">>, ""),
       Feat(<<"step_optimizer", "type">>, "adam"),
       Feat(<<"step_optimizer", "type">>, "nadam"),
       Feat(<<"step_window">>, ""), Feat(<<"unimodal">>, "") >>

\* main_gp: hypers_ = the entries of hsearch.hypers that are not hard-coded.
SearchHypers(net_type) == NonLiterals(EnvHypers("ppo_agent", net_type))

\* The names vectorizer.fit sees in the coverage matrix `mat`: row i holds
\* vals[i] of every hyper (all vals lists have two entries, so ffill fills
\* nothing); a str value gives 'key=value', a number gives 'key'.
FitNames(hs) ==
    {Feat(k, "") : k \in {k \in DOMAIN hs : hs[k].type \in {"bounded", "bool"}}}
    \cup UNION {{Feat(k, hs[k].opts[i]) : i \in DOMAIN hs[k].opts} :
                    k \in {k \in DOMAIN hs : hs[k].type = "int"}}

\* vectorizer.get_feature_names(): the names seen, sorted.
get_feature_names(seen) ==
    LET In(f) == f \in seen IN SelectSeq(FeatOrder, In)

\* feat_names = vectorizer.get_feature_names()
feat_names(net_type) == get_feature_names(FitNames(SearchHypers(net_type)))

\* hypers2vec(obj): h[k] = float(v) for a bool, else v or 0.; then
\* vectorizer.transform(h): a str value sets the slot 'key=value' to 1, a
\* number sets the slot 'key'; a name the vectorizer never saw is dropped.
Floats(hardcoded, obj) ==
    [k \in DOMAIN obj \ DOMAIN hardcoded |->
        IF obj[k].t = "bool" THEN Num(Milli(obj[k].n))
        ELSE IF Truthy(obj[k]) THEN obj[k] ELSE Num(0)]

Slot(h, f) ==
    IF f.attr \notin DOMAIN h THEN 0
    ELSE IF h[f.attr].t = "str"
         THEN IF f.val = h[f.attr].s THEN Milli(1) ELSE 0
         ELSE IF f.val = "" THEN h[f.attr].n ELSE 0

transform(names, h) == [i \in 1..Len(names) |-> Slot(h, names[i])]

hypers2vec(net_type, obj) ==
    transform(feat_names(net_type), Floats(EnvHardcoded("ppo_agent", net_type), obj))

\* vectorizer.inverse_transform([vec])[0]: the non-zero slots, in slot order.
RECURSIVE inverse_transform(_, _, _)
inverse_transform(names, vec, i) ==
    IF i > Len(vec) THEN <<>>
    ELSE (IF vec[i] /= 0 THEN <<[k |-> names[i], v |-> vec[i]]>> ELSE <<>>)
         \o inverse_transform(names, vec, i + 1)

\* The inner loop of vec2hypers for the slot attr=val with activation score:
\*   for k2, score2 in reversed.items():
\*       if k2.startswith(attr + '=') and score2 > score: score, val = score2, ..
RECURSIVE Winner(_, _, _, _, _)
Winner(reversed, j, attr, score, val) ==
    IF j > Len(reversed) THEN val
    ELSE LET k2 == reversed[j].k
             score2 == reversed[j].v
         IN  IF k2.attr = attr /\ k2.val /= "" /\ score2 > score
             THEN Winner(reversed, j + 1, attr, score2, k2.val)
             ELSE Winner(reversed, j + 1, attr, score, val)

\* The outer loop of vec2hypers.  obj is keyed by whole names: a slot name
\* 'attr=val' is looked up in obj as it is (`if k in obj: continue`), while
\* the decoded value is stored under 'attr'.
RECURSIVE Vec2Loop(_, _, _)
Vec2Loop(reversed, i, obj) ==
    IF i > Len(reversed) THEN obj
    ELSE LET k == reversed[i].k
             v == reversed[i].v
         IN  IF k.val = ""
             THEN Vec2Loop(reversed, i + 1, (k :> Num(v)) @@ obj)
             ELSE IF k \in DOMAIN obj
             THEN Vec2Loop(reversed, i + 1, obj)
             ELSE Vec2Loop(reversed, i + 1,
                           (Feat(k.attr, "") :> Str(Winner(reversed, 1, k.attr, v, k.val)))
                           @@ obj)

\* vec2hypers without its closing loop over the 'bool' hypers: a boolean
\* comes back as the float of its slot, and not at all from a zero slot.
Vec2BoolsAsDecoded(hs, obj) == [k \in {f.attr : f \in DOMAIN obj} |-> obj[Feat(k, "")]]

\* vec2hypers(vec): the loop above, then every 'bool' hyper is set to
\* bool(round(obj.get(k, 0.))).
Vec2Bools(hs, obj) ==
    LET bools == {k \in DOMAIN hs : hs[k].type = "bool"}
        keys == {f.attr : f \in DOMAIN obj} \cup bools
    IN  [k \in keys |->
            IF k \in bools
            THEN IF Feat(k, "") \in DOMAIN obj
                 THEN Bool(RoundMilli(obj[Feat(k, "")].n) /= 0)
                 ELSE Bool(FALSE)
            ELSE obj[Feat(k, "")]]

vec2hypers(net_type, vec) ==
    Vec2Bools(SearchHypers(net_type),
              Vec2Loop(inverse_transform(feat_names(net_type), vec, 1), 1, <<>>))

\* guess = {k: v['guess'] for k, v in hypers_.items()}
Guesses(hs) == [k \in DOMAIN hs |-> hs[k].guess]

GuessOf(net_type) == Guesses(SearchHypers(net_type))

\* A one-hot slot: a feature name of the form key=value.
IsOneHot(f) == f.val /= ""

\* bounds: for every feature name, [min, max] of the hyper's vals if it is
\* 'bounded', else [0, 1].  A name that is no key of hypers_ (a one-hot slot
\* 'key=value') skips the lookup, so bounded, min_ and max_ are the ones the
\* name before it left behind.
RECURSIVE bounds(_, _, _, _)
bounds(names, hs, i, left) ==
    IF i > Len(names) THEN <<>>
    ELSE LET k == names[i]
             cur == IF IsOneHot(k) THEN left
                    ELSE [bounded |-> hs[k.attr].type = "bounded",
                          min |-> hs[k.attr].lo, max |-> hs[k.attr].hi]
         IN  <<IF cur.bounded THEN <<cur.min, cur.max>> ELSE <<0, Milli(1)>>>>
             \o bounds(names, hs, i + 1, cur)

SearchBounds(net_type) ==
    bounds(feat_names(net_type), SearchHypers(net_type), 1,
           [bounded |-> FALSE, min |-> 0, max |-> 0])

\* bounds[:, 0] and bounds[:, 1]
Column(b, j) == [i \in 1..Len(b) |-> b[i][j]]

LowVec(net_type) == Column(SearchBounds(net_type), 1)

HighVec(net_type) == Column(SearchBounds(net_type), 2)

(* ------------------------------- state -------------------------------- *)

\* One HSearchEnv('ppo_agent', net_type=hsNet) instance and a caller that
\* holds one actions mapping, hsActions.  hsHardcoded is self.hardcoded,
\* hsResult what the last call returned (or that it raised), hsCall which
\* method it was, hsFresh whether the instance was fresh when that call was
\* made, and hsCalls the number of calls made so far.
VARIABLES hsNet, hsHardcoded, hsCall, hsFresh, hsCalls, hsActions, hsResult

hsVars == <<hsNet, hsHardcoded, hsCall, hsFresh, hsCalls, hsActions, hsResult>>

\* A caller of the codec built by main_gp for --net-type cdNet: it holds a
\* flat record (cdFlat) that it encodes, or starts from a vector (cdVec) as
\* an optimizer would hand it over, and decodes the vector (cdDecoded).
\* cdPc is "flat" (a record to encode), "vec" (a vector to decode) or "done".
VARIABLES cdNet, cdPc, cdFlat, cdVec, cdDecoded

cdVars == <<cdNet, cdPc, cdFlat, cdVec, cdDecoded>>

\* store: the runs table.  drv[d]: one main_gp process,
\*   pc        "off" (not started), "fetch" (top of the while loop), "branch"
\*             (history read, model fitted), "presample" (in boost_optimization),
\*             "loss_fn" (in a loss_fn call), "crashed" (an exception left main_gp)
\*   net_type, guess, boost      args.net_type, args.guess (0-based, -1 = off), args.boost
\*   guess_i, X, Y, boost_model  the loop's variables (boost_model: fitted or None)
\*   npre                        pre-samples still to take
\*   call                        the loss_fn call in progress: who makes it, its params
\* and, to state the properties: guess0 (args.guess at start), round (rounds
\* started), calls (loss_fn calls of the current round), seen (rows in the
\* store when the round read it), hist (runs the round read), log (every loss_fn call: its kind, its params, the score the
\* training returned and the row its run was stored in, 0 if none was),
\* trainRaised (the process ended on a failure of the training collaborator),
\* last (the round that ended last: its strategy, the history it started
\* with, its loss_fn calls, whether it returned to the top of the loop).
\* cap: a process is stopped from outside after cap loss_fn calls.
VARIABLES store, drv, cap

drVars == <<store, drv, cap>>

DriverIds == {1, 2}

NoRound == [kind |-> "none", hist |-> 0, calls |-> 0, returned |-> FALSE]

NoCall == [kind |-> "none", params |-> <<>>]

\* A main_gp process that was not started.
DriverOff ==
    [pc |-> "off", net_type |-> "conv2d", guess |-> -1, boost |-> FALSE,
     guess_i |-> 0, X |-> <<>>, Y |-> <<>>, boost_model |-> FALSE, npre |-> 0,
     call |-> NoCall, guess0 |-> -1, round |-> 0, calls |-> 0, seen |-> 0, hist |-> 0,
     log |-> <<>>, trainRaised |-> FALSE, last |-> NoRound]

\* One DotDict (ddData is self._data) and a caller: ddOp is the last call
\* made ("set", "get" or "none"), ddPath and ddVal its arguments, ddOut what
\* it returned or that it raised, ddSets the number of __setitem__ calls.
VARIABLES ddData, ddOp, ddPath, ddVal, ddOut, ddSets

ddVars == <<ddData, ddOp, ddPath, ddVal, ddOut, ddSets>>

\* The jitter loop of main_gp's Bayesian branch: jtX is X as the round read
\* it (a list of vectors, thousandths), jtOut what the loop has made of the
\* coordinates it has been over so far, row by row.
VARIABLES jtX, jtOut

jtVars == <<jtX, jtOut>>

vars == <<hsVars, cdVars, drVars, ddVars, jtVars>>

(* ------------------- HSearchEnv called directly ---------------------- *)

\* How many calls are made on one instance.
MaxCalls == 2

\* How many keys of an actions mapping differ from the declared guesses.
MaxEdits == 2

Drop == [t |-> "drop", n |-> 0, s |-> ""]

\* 'net.bias' is commented out of the conv2d section: no schema has it.
UnknownKey == <<"net", "bias">>

EditKeys ==
    { <<"baseline_mode">>, <<"gae_lambda">>, <<"optimization_steps">>,
      <<"step_optimizer", "learning_rate">>, <<"step_optimizer", "type">>,
      <<"batch_size">>, <<"likelihood_ratio_clipping">>,
      <<"net", "width">>, <<"net", "dropout">>, <<"net", "l2">>,
      <<"net", "depth_mid">>, UnknownKey }

\* What an edited key may hold: absent, None, or another value of its domain.
Choices(hs, k) ==
    IF k \notin DOMAIN hs THEN {Bool(TRUE)}
    ELSE {Drop, None} \cup
         CASE hs[k].type = "bounded" -> {Num(hs[k].lo), Num(hs[k].hi), Num(0)}
           [] hs[k].type = "bool" -> {Bool(hs[k].guess.n = 0)}
           [] hs[k].type = "int" ->
                {Str(hs[k].opts[i]) : i \in DOMAIN hs[k].opts} \ {hs[k].guess}
           [] OTHER -> {}

AllChoices(hs) == UNION {Choices(hs, k) : k \in EditKeys}

Edited(base, e) ==
    LET keys == (DOMAIN base \cup DOMAIN e) \ {k \in DOMAIN e : e[k] = Drop}
    IN  [k \in keys |-> IF k \in DOMAIN e THEN e[k] ELSE base[k]]

\* The actions mappings tried: the guesses with at most MaxEdits keys edited.
ActionInputs(net_type) ==
    LET hs == EnvHypers("ppo_agent", net_type)
        edits == UNION {{e \in [E -> AllChoices(hs)] : \A k \in E : e[k] \in Choices(hs, k)} :
                            E \in {E \in SUBSET EditKeys : Cardinality(E) <= MaxEdits}}
    IN  {Edited(GuessOf(net_type), e) : e \in edits}

\* HSearchEnv.__init__, and the caller's actions mapping
HsInit ==
    /\ hsNet \in NetTypes
    /\ hsHardcoded = EnvHardcoded("ppo_agent", hsNet)
    /\ hsCall = "none"
    /\ hsFresh = TRUE
    /\ hsCalls = 0
    /\ hsActions \in ActionInputs(hsNet)
    /\ hsResult = Failed("none")
    /\ cdNet = "conv2d" /\ cdPc = "done" /\ cdFlat = <<>> /\ cdVec = <<>>
    /\ cdDecoded = <<>>
    /\ store = <<>> /\ cap = 0 /\ drv = [d \in DriverIds |-> DriverOff]
    /\ ddData = <<>> /\ ddOp = "none" /\ ddPath = <<>> /\ ddVal = None
    /\ ddOut = Returned(None, <<>>) /\ ddSets = 0
    /\ jtX = <<>> /\ jtOut = <<>>

\* hsearch.get_hypers(actions)
CallGetHypers ==
    /\ hsCalls < MaxCalls
    /\ hsResult' = get_hypers(EnvHypers("ppo_agent", hsNet), hsHardcoded,
                              "ppo_agent", hsActions)
    /\ hsCall' = "get_hypers"
    /\ hsFresh' = (hsCalls = 0)
    /\ hsCalls' = hsCalls + 1
    /\ UNCHANGED <<hsNet, hsHardcoded, hsActions, cdVars, drVars, ddVars, jtVars>>

\* hsearch.get_winner()
CallGetWinner ==
    /\ hsCalls < MaxCalls
    /\ hsHardcoded' = WinnerOf(EnvHypers("ppo_agent", hsNet), hsHardcoded)
    /\ hsResult' = get_winner(EnvHypers("ppo_agent", hsNet), hsHardcoded, "ppo_agent")
    /\ hsCall' = "get_winner"
    /\ hsFresh' = (hsCalls = 0)
    /\ hsCalls' = hsCalls + 1
    /\ UNCHANGED <<hsNet, hsActions, cdVars, drVars, ddVars, jtVars>>


(* --------------------- properties of get_hypers ----------------------- *)

HsHypers == EnvHypers("ppo_agent", hsNet)

\* The flat record of the last get_hypers call after its pre-phase and after
\* its post-phase (get_hypers leaves self.hardcoded as it was).
HsPreFlat == PrePhase(HsHypers, hsHardcoded, hsActions)

HsFinalFlat == PostPhase(HsHypers, HsPreFlat)

\* The tree key k is routed to: main for an agent-level key, custom otherwise.
HsTreeOf(k) ==
    IF k \in DOMAIN hypers("ppo_agent") THEN hsResult.main ELSE hsResult.custom

\* The hydrate hook of key k exists and raises on the finalized record.
HydrateHookRaises(hs, flat, k) ==
    /\ hs[k].hydrate /= ""
    /\ IF hs[k].hydrate = "hydrate_baseline"
       THEN hydrate_baseline_raises(flat[k], flat)
       ELSE ApplyHydrate(hs[k], flat[k]) = Raise

\* C6: when the actions mapping holds a key the schema has no entry for,
\* get_hypers raises and returns nothing: no flat record, no main tree, no
\* custom tree, whatever the other keys of actions are.
C6_UnknownKeyFailsLoudly ==
    (hsCall = "get_hypers" /\ \E k \in DOMAIN hsActions : k \notin DOMAIN HsHypers)
        => /\ hsResult.status = "raise"
           /\ DOMAIN hsResult.flat = {}
           /\ DOMAIN hsResult.main = {}
           /\ DOMAIN hsResult.custom = {}

C6_Witness ==
    /\ hsCall = "get_hypers"
    /\ UnknownKey \in DOMAIN hsActions
    /\ Cardinality(DOMAIN hsActions) > 1
    /\ hsResult.status = "raise"

\* C7: whenever the hydrate hook of a key of the finalized record raises,
\* get_hypers still returns, and the key's dotted path in its target tree
\* holds the raw pre/post-processed value.  (Stated for the calls in which
\* nothing but hydration can fail: the record has baseline_mode and the
\* network spec can be built from the custom tree.)
C7_HydrateFailureNeverAborts ==
    (/\ hsCall = "get_hypers"
     /\ ~PrePhaseRaises(HsHypers, hsActions)
     /\ ~PostPhaseRaises(HsHypers, HsPreFlat)
     /\ <<"baseline_mode">> \in DOMAIN HsFinalFlat
     /\ hsResult.stage /= "network")
        => \A k \in DOMAIN HsFinalFlat :
              HydrateHookRaises(HsHypers, HsFinalFlat, k)
                  => /\ hsResult.status = "ok"
                     /\ k \in DOMAIN HsTreeOf(k)
                     /\ HsTreeOf(k)[k] = HsFinalFlat[k]

\* C8: whenever a post hook raises in the post-phase, the error is recovered
\* locally: get_hypers does not fail there, and the key keeps its pre-phase
\* value in the record it returns.
C8_PostFailureRecovered ==
    (hsCall = "get_hypers" /\ ~PrePhaseRaises(HsHypers, hsActions))
        => \A k \in DOMAIN HsPreFlat :
              ApplyPost(HsHypers[k], HsPreFlat[k], HsPreFlat) = Raise
                  => /\ hsResult.stage /= "post"
                     /\ hsResult.status = "ok" => hsResult.flat[k] = HsPreFlat[k]

\* C9: get_winner() without an id on a fresh instance returns a flat record
\* with exactly the schema's keys, every non-hardcoded key at its declared
\* guess and every hardcoded key at its literal.
C9_WinnerIsGuesses ==
    (hsCall = "get_winner" /\ hsFresh)
        => /\ hsResult.status = "ok"
           /\ hsResult.flat = [k \in DOMAIN HsHypers |-> HsHypers[k].guess]

C9_Witness ==
    /\ hsCall = "get_winner"
    /\ hsFresh
    /\ hsResult.status = "ok"
    /\ hsResult.flat[<<"gae_lambda">>] = Num(950)

(* ------------------------ the codec on its own ------------------------ *)

\* The activations tried on a one-hot slot are i/MaxLevel, i in 0..MaxLevel.
MaxLevel == 2

Levels == {(Milli(1) * i) \div MaxLevel : i \in 0..MaxLevel}

\* The vectors tried: the encoded guesses with every one-hot slot at any
\* level, and both corners of the bounds table.
CodecVecs(net_type) ==
    LET names == feat_names(net_type)
        base == hypers2vec(net_type, GuessOf(net_type))
        hot == {i \in 1..Len(names) : IsOneHot(names[i])}
    IN  {[i \in 1..Len(names) |-> IF i \in hot THEN a[i] ELSE base[i]] :
            a \in [hot -> Levels]}
        \cup {LowVec(net_type), HighVec(net_type)}

\* The records tried: the guesses with every 'int' hyper at any of its
\* options and every 'bool' hyper at either value.
CodecFlats(net_type) ==
    LET hs == SearchHypers(net_type)
        ints == {k \in DOMAIN hs : hs[k].type = "int"}
        bools == {k \in DOMAIN hs : hs[k].type = "bool"}
        opts == UNION {{Str(hs[k].opts[i]) : i \in DOMAIN hs[k].opts} : k \in ints}
    IN  {Edited(GuessOf(net_type), e @@ b) :
            e \in {e \in [ints -> opts] :
                      \A k \in ints : \E i \in DOMAIN hs[k].opts : e[k] = Str(hs[k].opts[i])},
            b \in [bools -> {Bool(TRUE), Bool(FALSE)}]}

CdInit ==
    /\ cdNet \in NetTypes
    /\ cdDecoded = <<>>
    /\ \/ cdPc = "flat" /\ cdFlat \in CodecFlats(cdNet) /\ cdVec = <<>>
       \/ cdPc = "vec" /\ cdFlat = <<>> /\ cdVec \in CodecVecs(cdNet)
    /\ hsNet = "conv2d" /\ hsHardcoded = <<>> /\ hsCall = "none" /\ hsFresh = TRUE
    /\ hsCalls = 0 /\ hsActions = <<>> /\ hsResult = Failed("none")
    /\ store = <<>> /\ cap = 0 /\ drv = [d \in DriverIds |-> DriverOff]
    /\ ddData = <<>> /\ ddOp = "none" /\ ddPath = <<>> /\ ddVal = None
    /\ ddOut = Returned(None, <<>>) /\ ddSets = 0
    /\ jtX = <<>> /\ jtOut = <<>>

\* vec = hypers2vec(flat)
Encode ==
    /\ cdPc = "flat"
    /\ cdVec' = hypers2vec(cdNet, cdFlat)
    /\ cdPc' = "vec"
    /\ UNCHANGED <<cdNet, cdFlat, cdDecoded, hsVars, drVars, ddVars, jtVars>>

\* obj = vec2hypers(vec)
Decode ==
    /\ cdPc = "vec"
    /\ cdDecoded' = vec2hypers(cdNet, cdVec)
    /\ cdPc' = "done"
    /\ UNCHANGED <<cdNet, cdFlat, cdVec, hsVars, drVars, ddVars, jtVars>>

\* The slots of the one-hot group of key k, and the first slot (in feature
\* order) that holds the group's maximum activation.
GroupSlots(net_type, k) ==
    {i \in 1..Len(feat_names(net_type)) :
        feat_names(net_type)[i].attr = k /\ IsOneHot(feat_names(net_type)[i])}

FirstMaxSlot(net_type, vec, k) ==
    LET g == GroupSlots(net_type, k)
        isMax(i) == \A j \in g : vec[j] <= vec[i]
    IN  CHOOSE i \in g : isMax(i) /\ \A j \in g : isMax(j) => i <= j

\* C10: for every categorical spec with a non-zero slot in its one-hot group,
\* vec2hypers decodes the spec to the domain value whose slot holds the
\* group's maximum activation, the first such slot in feature order on a tie.
C10_DecodeFirstMax ==
    cdPc = "done" =>
        \A k \in {k \in DOMAIN SearchHypers(cdNet) : SearchHypers(cdNet)[k].type = "int"} :
            (\E i \in GroupSlots(cdNet, k) : cdVec[i] /= 0)
                => /\ k \in DOMAIN cdDecoded
                   /\ cdDecoded[k] =
                        Str(feat_names(cdNet)[FirstMaxSlot(cdNet, cdVec, k)].val)

(* ------------------------- DotDict on its own ------------------------- *)

\* __setitem__ calls made on the store, and the keys a path is made of.
MaxSets == 2

MaxDepth == 3

DdKeys == {"a", "b"}

\* The dotted paths tried, 'a' to 'b.b.b', and the values stored.
DdPaths == UNION {[1..n -> DdKeys] : n \in 1..MaxDepth}

DdVals == {Num(Milli(1)), None, Str("tanh"), EmptyMap}

\* DotDict({})
DdInit ==
    /\ ddData = <<>> /\ ddOp = "none" /\ ddPath = <<>> /\ ddVal = None
    /\ ddOut = Returned(None, <<>>) /\ ddSets = 0
    /\ hsNet = "conv2d" /\ hsHardcoded = <<>> /\ hsCall = "none" /\ hsFresh = TRUE
    /\ hsCalls = 0 /\ hsActions = <<>> /\ hsResult = Failed("none")
    /\ cdNet = "conv2d" /\ cdPc = "done" /\ cdFlat = <<>> /\ cdVec = <<>>
    /\ cdDecoded = <<>>
    /\ store = <<>> /\ cap = 0 /\ drv = [d \in DriverIds |-> DriverOff]
    /\ jtX = <<>> /\ jtOut = <<>>

\* d[path] = val
DdSetItem ==
    /\ ddSets < MaxSets
    /\ \E path \in DdPaths, val \in DdVals :
          /\ ddOp' = "set" /\ ddPath' = path /\ ddVal' = val
          /\ IF SetItemRaises(ddData, path)
             THEN ddOut' = Raised /\ ddData' = ddData
             ELSE ddOut' = Returned(None, <<>>) /\ ddData' = SetItem(ddData, path, val)
    /\ ddSets' = ddSets + 1
    /\ UNCHANGED <<hsVars, cdVars, drVars, jtVars>>

\* d[path]
DdGetItem ==
    /\ \E path \in DdPaths :
          /\ ddOp' = "get" /\ ddPath' = path /\ ddVal' = None
          /\ ddOut' = GetItem(ddData, path)
    /\ UNCHANGED <<ddData, ddSets, hsVars, cdVars, drVars, jtVars>>

\* Some key of the path before its last one is not there.
AbsentIntermediate(tree, path) ==
    \E i \in 1..(Len(path) - 1) : ~HasKey(tree, SubSeq(path, 1, i))

\* C13: after any sequence of set operations, set(path, v) succeeds and a
\* following get(path) returns v for every dotted path, also when a proper
\* prefix of the path holds a value that is no mapping; and get(path)
\* returns None, without an error, when an intermediate key of the path is
\* absent.
C13_SetThenGet ==
    /\ ddOp = "set" =>
          /\ ddOut.status = "ok"
          /\ GetItem(ddData, ddPath) = Returned(ddVal, <<>>)
    /\ (ddOp = "get" /\ AbsentIntermediate(ddData, ddPath)) =>
          ddOut = Returned(None, <<>>)

(* ---------------------------- search driver --------------------------- *)

\* print_feature_importances returns no model for fewer than 5 runs.
MinFitRuns == 5

\* boost_optimization(..., n_pre_samples=5)
n_pre_samples == 5

\* guess_overrides of main_gp: nine sequences of three override dicts.
guess_overrides ==
    << << <<>>,
          (<<"net", "l1">> :> Num(7000)) @@ (<<"net", "l2">> :> Num(3000))
              @@ (<<"net", "dropout">> :> Num(500)),
          (<<"pct_change">> :> Bool(TRUE)) >>,
       << (<<"net", "l1">> :> Num(7000)) @@ (<<"net", "l2">> :> Num(7000))
              @@ (<<"net", "dropout">> :> Num(1)),
          (<<"optimization_steps">> :> Num(20000)),
          (<<"step_optimizer", "learning_rate">> :> Num(5500)) >>,
       << (<<"net", "l1">> :> Num(7000)) @@ (<<"net", "l2">> :> Num(7000))
              @@ (<<"net", "dropout">> :> Num(500)),
          (<<"net", "width">> :> Num(4000)),
          (<<"net", "width">> :> Num(8000)) >>,
       << (<<"net", "l1">> :> Num(7000)) @@ (<<"net", "l2">> :> Num(3000))
              @@ (<<"net", "dropout">> :> Num(1)),
          (<<"net", "activation">> :> Str("relu")),
          (<<"net", "stride">> :> Num(2000)) >>,
       << (<<"net", "l1">> :> Num(3000)) @@ (<<"net", "l2">> :> Num(3000))
              @@ (<<"net", "dropout">> :> Num(500)),
          (<<"step_window">> :> Num(400000)),
          (<<"unimodal">> :> Bool(TRUE)) >>,
       << (<<"scale">> :> Bool(FALSE)),
          (<<"baseline_mode">> :> Bool(FALSE)),
          (<<"net", "window">> :> Num(1000)) >>,
       << (<<"net", "window">> :> Num(3000)),
          (<<"net", "depth_post">> :> Num(1000)),
          (<<"net", "stride">> :> Num(1000)) >>,
       << (<<"net", "depth_mid">> :> Num(2000)),
          (<<"punish_repeats">> :> Bool(TRUE)),
          (<<"arbitrage">> :> Bool(FALSE)) >>,
       << (<<"batch_size">> :> Num(9000)),
          (<<"batch_size">> :> Num(11000)),
          (<<"indicators">> :> Bool(FALSE)) >> >>

\* The candidate of a guess round without its override (guess.update left out).
GuessCandidateNoOverride(net_type, g, i) == GuessOf(net_type)

\* guess = {k: v['guess'] ...}; guess.update(guess_overrides[args.guess][guess_i])
\* with args.guess = g - 1 and guess_i = i - 1 (sequences start at 1 here).
GuessCandidate(net_type, g, i) == guess_overrides[g][i] @@ GuessOf(net_type)

\* The vectors a proposer may come up with (np.random.uniform within bounds,
\* the arg-max of the surrogate, the GP's acquisition): both corners of the
\* bounds and the encoded guesses.
ProposalVecs(net_type) ==
    {LowVec(net_type), HighVec(net_type), hypers2vec(net_type, GuessOf(net_type))}

\* What the training collaborator does with one candidate: it raises, or it
\* returns the advantage that execute() stores.
Scores == {1}

TrainOutcomes ==
    {[raise |-> TRUE, score |-> 0]} \cup {[raise |-> FALSE, score |-> x] : x \in Scores}

\* A row of the runs table as the loop reads it: hypers (the flat record,
\* json-encoded), advantage_avg, agent and flag (the network family).  The
\* auxiliary series are written by the same insert statement.
Run(flat, score, agent, flag) ==
    [hypers |-> flat, advantage_avg |-> score, agent |-> agent, flag |-> flag]

\* An insert that overwrites the newest row instead of appending one.
InsertOverLast(st, run) ==
    IF st = <<>> THEN <<run>> ELSE [st EXCEPT ![Len(st)] = run]

\* conn_runs.execute("insert into runs ...")
Insert(st, run) == Append(st, run)

\* select hypers, advantages, advantage_avg from runs where flag=:f
SelectRuns(st, net_type) ==
    LET Match(r) == r.flag = net_type IN SelectSeq(st, Match)

\* utils.calculate_score(run): the run's score.
calculate_score(run) == run.advantage_avg

\* loss_fn(params) = HSearchEnv(net_type).execute(vec2hypers(params)):
\* get_hypers, then the training collaborator, then the insert.  Nothing in
\* loss_fn or execute catches an exception.  This is the get_hypers part.
LossFnHypers(net_type, params) ==
    get_hypers(EnvHypers("ppo_agent", net_type), EnvHardcoded("ppo_agent", net_type),
               "ppo_agent", vec2hypers(net_type, params))

\* n_pre_samples taken whatever the history holds.
PreSamplesAlways(xlen) == n_pre_samples

\* n_pre_samples -= len(x_list); the pre-sample loop runs if it is > 0.
PreSamples(xlen) == IF n_pre_samples - xlen > 0 THEN n_pre_samples - xlen ELSE 0

\* Rows of the active family in the store when a single driver starts.
MaxInitRuns == 5

\* loss_fn calls after which a single driver is stopped.
MaxEvals == 4

\* Rows in the store when two drivers start on it.
HistoryRows == 10

\* loss_fn calls after which each of two drivers is stopped.
EvalsEach == 1

\* main_gp up to `guess_i = 0`
DriverStart(net_type, guess, boost) ==
    [DriverOff EXCEPT !.pc = "fetch", !.net_type = net_type, !.guess = guess,
                      !.boost = boost, !.guess0 = guess]

\* A run as the loop itself writes it: the declared guesses, with some score.
GuessRun(agent, net_type, score) ==
    Run(get_winner(EnvHypers("ppo_agent", net_type), EnvHardcoded("ppo_agent", net_type),
                   "ppo_agent").flat,
        score, agent, net_type)

OtherNet(net_type) == IF net_type = "conv2d" THEN "lstm" ELSE "conv2d"

\* n runs of the active pair, told apart by their scores.
History(net_type, n) == [i \in 1..n |-> GuessRun("ppo_agent", net_type, i)]

\* The runs table when a single driver starts: up to MaxInitRuns runs of the
\* active pair, and possibly a run of another agent family (the table has an
\* agent column; 'dqn_agent' is the family the HSearchEnv docstring mentions)
\* and a run of the other network family.
InitStores(net_type) ==
    {(IF a THEN <<GuessRun("dqn_agent", net_type, 0)>> ELSE <<>>)
         \o History(net_type, n)
         \o (IF f THEN <<GuessRun("ppo_agent", OtherNet(net_type), 0)>> ELSE <<>>) :
        n \in 0..MaxInitRuns, a \in BOOLEAN, f \in BOOLEAN}

\* The arguments two drivers on one store are started with: the first guess
\* sequence or none, boosted or Bayesian.
PairArgs == {[guess |-> g, boost |-> b] : g \in {-1, 0}, b \in BOOLEAN}

\* Either one driver, started with any arguments on any store of InitStores
\* and stopped after MaxEvals calls, or two drivers of one network family on
\* a store of HistoryRows runs, each stopped after EvalsEach calls.
DrInit ==
    /\ \E net \in NetTypes :
          \/ /\ cap = MaxEvals
             /\ store \in InitStores(net)
             /\ \E g \in -1..(Len(guess_overrides) - 1), b \in BOOLEAN :
                   drv = [d \in DriverIds |->
                             IF d = 1 THEN DriverStart(net, g, b) ELSE DriverOff]
          \/ /\ cap = EvalsEach
             /\ store = History(net, HistoryRows)
             /\ \E a \in [DriverIds -> PairArgs] :
                   drv = [d \in DriverIds |-> DriverStart(net, a[d].guess, a[d].boost)]
    /\ hsNet = "conv2d" /\ hsHardcoded = <<>> /\ hsCall = "none" /\ hsFresh = TRUE
    /\ hsCalls = 0 /\ hsActions = <<>> /\ hsResult = Failed("none")
    /\ cdNet = "conv2d" /\ cdPc = "done" /\ cdFlat = <<>> /\ cdVec = <<>>
    /\ cdDecoded = <<>>
    /\ ddData = <<>> /\ ddOp = "none" /\ ddPath = <<>> /\ ddVal = None
    /\ ddOut = Returned(None, <<>>) /\ ddSets = 0
    /\ jtX = <<>> /\ jtOut = <<>>

Evals(d) == Len(drv[d].log)

\* The strategy of the round a driver is in.
RoundKind(dr) ==
    IF dr.guess /= -1 THEN "guess" ELSE IF dr.boost THEN "boost" ELSE "bayes"

\* The top of the while loop: re-read the runs, rebuild X and Y, fit the model.
Fetch(d) ==
    /\ drv[d].pc = "fetch"
    /\ Evals(d) < cap
    /\ LET runs == SelectRuns(store, drv[d].net_type)
           X == [i \in 1..Len(runs) |-> hypers2vec(drv[d].net_type, runs[i].hypers)]
           Y == [i \in 1..Len(runs) |-> calculate_score(runs[i])]
       IN  drv' = [drv EXCEPT ![d].pc = "branch", ![d].X = X, ![d].Y = Y,
                              ![d].boost_model = (Len(runs) >= MinFitRuns),
                              ![d].round = @ + 1, ![d].calls = 0,
                              ![d].seen = Len(store), ![d].hist = Len(runs)]
    /\ UNCHANGED <<store, cap, hsVars, cdVars, ddVars, jtVars>>

\* loss_fn(params) is called from `kind`.
Call(d, kind, params) ==
    /\ Evals(d) < cap
    /\ drv' = [drv EXCEPT ![d].pc = "loss_fn",
                          ![d].call = [kind |-> kind, params |-> params]]
    /\ UNCHANGED <<store, cap, hsVars, cdVars, ddVars, jtVars>>

\* if args.guess != -1: loss_fn(hypers2vec(guess)) with the next override
GuessRound(d) ==
    /\ drv[d].pc = "branch"
    /\ drv[d].guess /= -1
    /\ Call(d, "guess",
            hypers2vec(drv[d].net_type,
                       GuessCandidate(drv[d].net_type, drv[d].guess + 1,
                                      drv[d].guess_i + 1)))

\* boost_optimization is entered: no y is None (every Y comes from a stored
\* run), and n_pre_samples -= len(x_list).
BoostEnter(d) ==
    /\ drv[d].pc = "branch"
    /\ drv[d].guess = -1
    /\ drv[d].boost
    /\ drv' = [drv EXCEPT ![d].pc = "presample", ![d].npre = PreSamples(Len(drv[d].X))]
    /\ UNCHANGED <<store, cap, hsVars, cdVars, ddVars, jtVars>>

\* for params in np.random.uniform(...): x_list.append(params); y_list.append(loss_fn(params))
BoostPreSample(d) ==
    /\ drv[d].pc = "presample"
    /\ drv[d].npre > 0
    /\ \E params \in ProposalVecs(drv[d].net_type) : Call(d, "presample", params)

\* The Monte-Carlo search over model.predict, when boost_model is None: the
\* attribute lookup raises and leaves main_gp.
BoostNoModel(d) ==
    /\ drv[d].pc = "presample"
    /\ drv[d].npre = 0
    /\ ~drv[d].boost_model
    /\ drv' = [drv EXCEPT ![d].pc = "crashed",
                          ![d].last = [kind |-> "boost", hist |-> drv[d].hist,
                                       calls |-> drv[d].calls, returned |-> FALSE]]
    /\ UNCHANGED <<store, cap, hsVars, cdVars, ddVars, jtVars>>

\* The Monte-Carlo search picks the vector the model scores best (any vector
\* within bounds, as far as the loop is concerned), then loss_fn(best_params).
BoostPropose(d) ==
    /\ drv[d].pc = "presample"
    /\ drv[d].npre = 0
    /\ drv[d].boost_model
    /\ \E params \in ProposalVecs(drv[d].net_type) : Call(d, "boost", params)

\* gp.bayesian_optimisation2(loss_fn, bounds, x_list, y_list): one real
\* evaluation of a proposed vector per round.  (The jitter added to X before
\* the call is below the resolution of the thousandths kept here; the jitter
\* loop is modelled on its own, with the floats' resolution, further down.)
bayesian_optimisation2(d) ==
    /\ drv[d].pc = "branch"
    /\ drv[d].guess = -1
    /\ ~drv[d].boost
    /\ \E params \in ProposalVecs(drv[d].net_type) : Call(d, "bayes", params)

\* Where the caller of loss_fn goes on when the call returned score:
\*   guess      guess_i += 1; past the sequence's end args.guess = -1; continue
\*   presample  x_list.append(params); y_list.append(...); next pre-sample
\*   boost      loss_fn(best_params) ends boost_optimization and the round
\*   bayes      bayesian_optimisation2 returns and the round ends
Return(dr, c, score) ==
    LET ended == [kind |-> RoundKind(dr), hist |-> dr.hist, calls |-> dr.calls,
                  returned |-> TRUE]
    IN  CASE c.kind = "guess" ->
                 [dr EXCEPT !.pc = "fetch", !.guess_i = @ + 1, !.last = ended,
                            !.guess = IF dr.guess_i + 1 >
                                           Len(guess_overrides[dr.guess + 1]) - 1
                                      THEN -1 ELSE @]
          [] c.kind = "presample" ->
                 [dr EXCEPT !.pc = "presample", !.npre = @ - 1,
                            !.X = Append(@, c.params),
                            !.Y = Append(@, score)]
          [] OTHER -> [dr EXCEPT !.pc = "fetch", !.last = ended]

\* HSearchEnv.execute once get_hypers gave r and the training collaborator did
\* out.  Nothing in execute, in loss_fn or in the loop catches an exception:
\* a raise of get_hypers or of the collaborator leaves main_gp.  Otherwise
\* the run is inserted and loss_fn returns its score.
execute(d, c, r, out) ==
    IF r.status = "raise" \/ out.raise
    THEN /\ drv' = [drv EXCEPT
                       ![d].pc = "crashed", ![d].call = NoCall, ![d].calls = @ + 1,
                       ![d].log = Append(@, [kind |-> c.kind, params |-> c.params,
                                             score |-> 0, row |-> 0]),
                       ![d].trainRaised = (r.status = "ok"),
                       ![d].last = [kind |-> RoundKind(drv[d]), hist |-> drv[d].hist,
                                    calls |-> drv[d].calls + 1, returned |-> FALSE]]
         /\ store' = store
    ELSE /\ drv' = [drv EXCEPT ![d] =
                       Return([drv[d] EXCEPT
                                  !.call = NoCall, !.calls = @ + 1,
                                  !.log = Append(@, [kind |-> c.kind, params |-> c.params,
                                                     score |-> out.score,
                                                     row |-> Len(store) + 1])],
                              c, out.score)]
         /\ store' = Insert(store, Run(r.flat, out.score, "ppo_agent", drv[d].net_type))

\* loss_fn(params): HSearchEnv(net_type).execute(vec2hypers(params))
loss_fn(d) ==
    /\ drv[d].pc = "loss_fn"
    /\ \E out \in TrainOutcomes :
          execute(d, drv[d].call, LossFnHypers(drv[d].net_type, drv[d].call.params), out)
    /\ UNCHANGED <<cap, hsVars, cdVars, ddVars, jtVars>>

DriverStep(d) ==
    \/ Fetch(d)
    \/ GuessRound(d)
    \/ BoostEnter(d)
    \/ BoostPreSample(d)
    \/ BoostNoModel(d)
    \/ BoostPropose(d)
    \/ bayesian_optimisation2(d)
    \/ loss_fn(d)

(* ---------------------- properties of the driver ---------------------- *)

\* C1: when the training collaborator raises while a candidate is scored, the
\* loop does not terminate: the driver goes on to the next round.
C1_TrainingFailureContained ==
    \A d \in DriverIds : drv[d].trainRaised => drv[d].pc /= "crashed"

\* Override i of guess sequence g applied on top of every declared guess.
OverrideOnGuess(net_type, g, i) ==
    LET hs == SearchHypers(net_type)
        ov == guess_overrides[g][i]
    IN  [k \in DOMAIN hs \cup DOMAIN ov |-> IF k \in DOMAIN ov THEN ov[k] ELSE hs[k].guess]

\* C2: a driver started with a guess sequence of length n scores, in its
\* first n loss_fn calls, the overrides of the sequence in their listed order
\* (call i is override i on top of the declared guesses), every later call is
\* a model-driven one, and once the sequence is exhausted (from round n + 1
\* on) the driver is in feedback mode for good.
C2_GuessSequenceFirst ==
    \A d \in DriverIds :
        drv[d].guess0 /= -1 =>
            LET n == Len(guess_overrides[drv[d].guess0 + 1])
                net == drv[d].net_type
                log == drv[d].log
            IN  /\ \A i \in 1..Len(log) :
                      IF i <= n
                      THEN /\ log[i].kind = "guess"
                           /\ log[i].params =
                                 hypers2vec(net, OverrideOnGuess(net, drv[d].guess0 + 1, i))
                      ELSE log[i].kind \in {"presample", "boost", "bayes"}
                /\ drv[d].call.kind /= "none"
                      => (drv[d].call.kind = "guess" <=> Len(log) < n)
                /\ drv[d].round > n => drv[d].guess = -1
                /\ drv[d].guess /= -1 => drv[d].guess = drv[d].guess0 /\ Len(log) <= n

C2_Witness ==
    \E d \in DriverIds :
        /\ drv[d].guess0 /= -1
        /\ drv[d].guess = -1
        /\ Len(drv[d].log) = Len(guess_overrides[drv[d].guess0 + 1]) + 1
        /\ drv[d].log[Len(drv[d].log)].kind \in {"boost", "bayes"}

\* A driver is inside a round of the boosted strategy.
InBoostRound(d) ==
    /\ drv[d].pc \in {"branch", "presample", "loss_fn"}
    /\ RoundKind(drv[d]) = "boost"

RunsOfPair(st, agent, net_type) ==
    LET Match(r) == r.agent = agent /\ r.flag = net_type IN SelectSeq(st, Match)

\* C4: the training set a round starts with is exactly the stored runs of the
\* driver's (agent family, network family) pair, in the store's order.
C4_TrainingSetIsActivePair ==
    \A d \in DriverIds :
        drv[d].pc = "branch" =>
            LET rows == RunsOfPair(SubSeq(store, 1, drv[d].seen), "ppo_agent",
                                   drv[d].net_type)
            IN  /\ Len(drv[d].X) = Len(rows)
                /\ Len(drv[d].Y) = Len(rows)
                /\ \A i \in 1..Len(rows) :
                      /\ drv[d].X[i] = hypers2vec(drv[d].net_type, rows[i].hypers)
                      /\ drv[d].Y[i] = rows[i].advantage_avg

\* The rows a driver's loss_fn calls stored.
RowsOf(d) == {drv[d].log[j].row : j \in 1..Len(drv[d].log)} \ {0}

Stored(d) == {j \in 1..Len(drv[d].log) : drv[d].log[j].row > 0}

\* Two drivers on the HistoryRows-row store: the original rows are as they
\* were, every run a driver stored is there once and complete, and there is
\* no other row.
PairLedger ==
    (\A d \in DriverIds : drv[d].pc /= "off") =>
        /\ SubSeq(store, 1, HistoryRows) = History(drv[1].net_type, HistoryRows)
        /\ Len(store) = HistoryRows + Cardinality(Stored(1)) + Cardinality(Stored(2))
        /\ RowsOf(1) \cap RowsOf(2) = {}
        /\ \A d \in DriverIds :
              /\ Cardinality(RowsOf(d)) = Cardinality(Stored(d))
              /\ \A j \in Stored(d) :
                    LET c == drv[d].log[j]
                    IN  /\ c.row \in (HistoryRows + 1)..Len(store)
                        /\ store[c.row] =
                              Run(LossFnHypers(drv[d].net_type, c.params).flat,
                                  c.score, "ppo_agent", drv[d].net_type)
        /\ (\A d \in DriverIds :
                drv[d].hist = HistoryRows /\ Cardinality(Stored(d)) = 1)
              => Len(store) = HistoryRows + 2

\* C5: two drivers that read the same HistoryRows-row history and each
\* complete one evaluation leave HistoryRows + 2 rows, the original ones
\* unchanged and each new run there once and complete; and no step ever
\* updates or deletes a stored row.
C5_AppendOnlyLedger ==
    /\ []PairLedger
    /\ [][Len(store') >= Len(store) /\ SubSeq(store', 1, Len(store)) = store]_vars

C5_Witness ==
    /\ \A d \in DriverIds :
          /\ drv[d].hist = HistoryRows
          /\ Cardinality(Stored(d)) = 1
          /\ drv[d].pc = "fetch"
    /\ Len(store) = HistoryRows + 2

(* --------------------------- the jitter loop --------------------------- *)

\* The history the loop goes over: JtRows vectors of JtDim coordinates.
JtRows == 2

JtDim == 2

\* Coordinates of a stored vector: 0.0 (a False, a one-hot slot that is off),
\* 1.0 (a True, a one-hot slot that is on) and 3.0 (a depth, a window).
JtCoords == {0, Milli(1), Milli(3)}

\* np.random.random() returns a float64 of [0.0, 1.0), a multiple of 2^-53:
\* 0.0, 2^-e for the exponents of DrawExps, and 1 - 2^-53, the largest one.
DrawExps == {1, 32, 33, 34}

Draw(kind, e) == [kind |-> kind, e |-> e]

random == {Draw("zero", 0), Draw("top", 0)} \cup {Draw("pow", e) : e \in DrawExps}

\* floor(log2(x)) for a float x >= 1.0 held in thousandths.
RECURSIVE Log2Floor(_)
Log2Floor(x) == IF x < Milli(2) THEN 0 ELSE 1 + Log2Floor(x \div 2)

\* 2^k mod 10^6: the digits of 2^k * 1e-6 behind the point.
RECURSIVE TwoPowMod(_)
TwoPowMod(k) == IF k <= 0 THEN 1 ELSE (2 * TwoPowMod(k - 1)) % 1000000

\* What x[i] += d makes of x[i], relative to the value it had:
\*   same   the float is unchanged
\*   ulps   it is n units in the last place of x[i] higher
\*   pow    it is higher by 2^-n * 1e-6, give or take half a unit
\*   top    it is higher by 1e-6 rounded to a unit in the last place of x[i];
\*          over says that the rounding went up, so that the step is > 1e-6
Moved(kind, n, over) == [kind |-> kind, n |-> n, over |-> over]

\* x[i] += np.random.random() * 1e-6 in float64, round to nearest.  With
\* L = floor(log2(x)) a unit in the last place of x is 2^(L-52), and the
\* product d = 2^-e * 1e-6 is 2^k * 1e-6 units, k = 52 - L - e.  Since
\* 2^-20 < 1e-6 < 2^-19, d is less than half a unit, and the sum rounds back
\* to x, when k <= 18.  On 0.0 the sum is d itself.
JitterAdd(x, draw) ==
    IF draw.kind = "zero" THEN Moved("same", 0, FALSE)
    ELSE IF x = 0 THEN Moved(draw.kind, draw.e, FALSE)
    ELSE LET k == 52 - Log2Floor(x) - draw.e
         IN  IF draw.kind = "top" THEN Moved("top", 0, TwoPowMod(k) >= 500000)
             ELSE IF k <= 18 THEN Moved("same", 0, FALSE)
             ELSE IF k <= 30 THEN Moved("ulps", (TwoPow(k) + 500000) \div 1000000, FALSE)
             ELSE Moved("pow", draw.e, FALSE)

\* X as a round of the Bayesian branch has read it.
JtInit ==
    /\ jtX \in [1..JtRows -> [1..JtDim -> JtCoords]]
    /\ jtOut = <<>>
    /\ hsNet = "conv2d" /\ hsHardcoded = <<>> /\ hsCall = "none" /\ hsFresh = TRUE
    /\ hsCalls = 0 /\ hsActions = <<>> /\ hsResult = Failed("none")
    /\ cdNet = "conv2d" /\ cdPc = "done" /\ cdFlat = <<>> /\ cdVec = <<>>
    /\ cdDecoded = <<>>
    /\ store = <<>> /\ cap = 0 /\ drv = [d \in DriverIds |-> DriverOff]
    /\ ddData = <<>> /\ ddOp = "none" /\ ddPath = <<>> /\ ddVal = None
    /\ ddOut = Returned(None, <<>>) /\ ddSets = 0

\* One pass of the inner loop:  x[i] += np.random.random() * 1e-6
JitterStep ==
    /\ Len(jtOut) < JtRows * JtDim
    /\ \E draw \in random :
          LET r == (Len(jtOut) \div JtDim) + 1
              i == (Len(jtOut) % JtDim) + 1
          IN  jtOut' = Append(jtOut, JitterAdd(jtX[r][i], draw))
    /\ UNCHANGED <<jtX, hsVars, cdVars, drVars, ddVars>>

\* The loop is through, gp.bayesian_optimisation2 is called next.
Jittered == Len(jtOut) = JtRows * JtDim

\* What the loop made of coordinate i of vector r.
JitterOf(r, i) == jtOut[(r - 1) * JtDim + i]

\* C14: before the Bayesian strategy is invoked every coordinate of every
\* historical vector has received a perturbation strictly greater than zero
\* and strictly smaller than 1e-6, so that any two vectors that were
\* identical differ in at least one coordinate.
C14_JitterSeparates ==
    Jittered =>
        /\ \A r \in 1..JtRows, i \in 1..JtDim :
              JitterOf(r, i).kind /= "same" /\ ~JitterOf(r, i).over
        /\ \A r1, r2 \in 1..JtRows :
              (r1 /= r2 /\ jtX[r1] = jtX[r2]) =>
                  \E i \in 1..JtDim : JitterOf(r1, i) /= JitterOf(r2, i)

(* -------------------- properties of the round trip -------------------- *)

\* The categorical and boolean hypers of the schema the codec was built for.
DiscreteKeys(net_type) ==
    {k \in DOMAIN SearchHypers(net_type) : SearchHypers(net_type)[k].type \in {"int", "bool"}}

\* C12: for every categorical or boolean hyper and every flat record that
\* holds a value of its domain there, decoding the encoded record gives the
\* same value back under the same key; a boolean false comes back as an
\* explicit false entry.
C12_RoundTrip ==
    (cdPc = "done" /\ cdFlat /= <<>>) =>
        \A k \in DiscreteKeys(cdNet) :
            k \in DOMAIN cdDecoded /\ cdDecoded[k] = cdFlat[k]

C12_Witness ==
    /\ cdPc = "done"
    /\ cdFlat /= <<>>
    /\ cdFlat[<<"arbitrage">>] = Bool(FALSE)
    /\ cdFlat[<<"net", "activation">>] = Str("relu")
    /\ cdFlat[<<"step_optimizer", "type">>] = Str("nadam")
    /\ cdDecoded[<<"arbitrage">>] = Bool(FALSE)
    /\ cdDecoded[<<"net", "activation">>] = Str("relu")

(* ------------------ properties of the decoded record ------------------ *)

\* Every slot of the vector lies within its bounds of the table.
InBounds(net_type, vec) ==
    \A i \in 1..Len(vec) :
        SearchBounds(net_type)[i][1] <= vec[i] /\ vec[i] <= SearchBounds(net_type)[i][2]

\* C15: for every vector whose slots all lie within the bounds table, the
\* record vec2hypers returns holds every non-hardcoded key of the schema, a
\* bounded key also when its slot is 0 and a categorical key also when all
\* slots of its group are 0.
C15_DecodedComplete ==
    (cdPc = "done" /\ cdFlat = <<>> /\ InBounds(cdNet, cdVec)) =>
        DOMAIN SearchHypers(cdNet) \subseteq DOMAIN cdDecoded

(* ------------------- properties of the bounds table ------------------- *)

\* The table the bounds are described by: [min, max] of the declared domain
\* for the slot of a bounded hyper, [0, 1] for every other slot.
DeclaredBounds(net_type) ==
    [i \in 1..Len(feat_names(net_type)) |->
        LET k == feat_names(net_type)[i]
            h == SearchHypers(net_type)[k.attr]
        IN  IF ~IsOneHot(k) /\ h.type = "bounded" THEN <<h.lo, h.hi>>
            ELSE <<0, Milli(1)>>]

\* C11: in the bounds table a started driver has built, the slot of a bounded
\* hyper has the [min, max] of its declared domain, and every one-hot slot
\* and every boolean slot has [0, 1], whichever feature precedes it.
C11_BoundsTable ==
    \A d \in DriverIds :
        drv[d].pc /= "off" =>
            SearchBounds(drv[d].net_type) = DeclaredBounds(drv[d].net_type)

(* --------------------------- specifications --------------------------- *)

HsNext == CallGetHypers \/ CallGetWinner

SpecHypers == HsInit /\ [][HsNext]_vars

CdNext == Encode \/ Decode

SpecCodec == CdInit /\ [][CdNext]_vars

DdNext == DdSetItem \/ DdGetItem

SpecDotDict == DdInit /\ [][DdNext]_vars

JtNext == JitterStep

SpecJitter == JtInit /\ [][JtNext]_vars

Next == \E d \in DriverIds : DriverStep(d)

Spec == DrInit /\ [][Next]_vars

====
